---- MODULE Spec2Model ----
(***************************************************************************)
(* RAP-MUSIC source localisation, mne/beamformer/_rap_music.py.            *)
(*                                                                         *)
(* The model follows _apply_rap_music statement by statement.  numpy's     *)
(* floating point numbers are modelled by exact rationals, so that an      *)
(* exact tie, an exact zero and 0/0 are what they are in the program on    *)
(* inputs whose arithmetic is exact (small integers, axis-aligned blocks). *)
(* A vector is a sequence of rationals, a matrix the sequence of its       *)
(* columns.                                                                *)
(***************************************************************************)
EXTENDS Integers, Sequences, FiniteSets, TLC

(***************************************************************************)
(* Exact rationals <<numerator, denominator>>, denominator > 0, reduced.   *)
(***************************************************************************)
Abs(x) == IF x < 0 THEN -x ELSE x

RECURSIVE GCD(_, _)
GCD(a, b) == IF b = 0 THEN a ELSE GCD(b, a % b)

Reduce(n, d, g) == IF d < 0 THEN <<(-n) \div g, (-d) \div g>> ELSE <<n \div g, d \div g>>
Rat(n, d) == Reduce(n, d, GCD(Abs(n), Abs(d)))

Zero == <<0, 1>>
One == <<1, 1>>
RInt(n) == <<n, 1>>
RAdd(a, b) == IF a[2] = b[2] THEN Rat(a[1] + b[1], a[2])
              ELSE Rat(a[1] * b[2] + b[1] * a[2], a[2] * b[2])
RNeg(a) == <<-a[1], a[2]>>
RSub(a, b) == RAdd(a, RNeg(b))
RMul(a, b) == IF a[1] = 0 \/ b[1] = 0 THEN Zero ELSE Rat(a[1] * b[1], a[2] * b[2])
RDiv(a, b) == Rat(a[1] * b[2], a[2] * b[1])
RLess(a, b) == a[1] * b[2] < b[1] * a[2]

(***************************************************************************)
(* numpy array operations.                                                 *)
(***************************************************************************)
NRows(X) == IF Len(X) = 0 THEN 0 ELSE Len(X[1])

RECURSIVE DotUpTo(_, _, _)
DotUpTo(u, v, n) ==
    IF n = 0 THEN Zero ELSE RAdd(DotUpTo(u, v, n - 1), RMul(u[n], v[n]))

\* np.dot of two vectors
VDot(u, v) == DotUpTo(u, v, Len(u))

\* A sequence given by its entries, evaluated once
Vec(f) == f \o <<>>

\* F applied to the value of v, evaluated once
With(v, F(_)) == CHOOSE y \in {F(x) : x \in {v}} : TRUE

\* X.T.conjugate() for a real matrix with m rows
Transpose(X, m) == Vec([i \in 1..m |-> Vec([j \in 1..Len(X) |-> X[j][i]])])

\* np.dot(X, Y): column j of the product is X applied to column j of Y
RowsDot(Xt, Y) == Vec([j \in 1..Len(Y) |-> Vec([i \in 1..Len(Xt) |-> VDot(Xt[i], Y[j])])])
Dot(X, Y, m) == RowsDot(Transpose(X, m), Y)

\* np.dot(X, v) for a vector v
RowsVec(Xt, v) == Vec([i \in 1..Len(Xt) |-> VDot(Xt[i], v)])
MatVec(X, v, m) == RowsVec(Transpose(X, m), v)

\* np.identity(m)
Identity(m) == Vec([j \in 1..m |-> Vec([i \in 1..m |-> IF i = j THEN One ELSE Zero])])

MatSub(X, Y) ==
    Vec([j \in 1..Len(X) |-> Vec([i \in 1..Len(X[j]) |-> RSub(X[j][i], Y[j][i])])])
MatAdd(X, Y) ==
    Vec([j \in 1..Len(X) |-> Vec([i \in 1..Len(X[j]) |-> RAdd(X[j][i], Y[j][i])])])
MatScale(c, X) ==
    Vec([j \in 1..Len(X) |-> Vec([i \in 1..Len(X[j]) |-> RMul(c, X[j][i])])])

RECURSIVE TraceUpTo(_, _)
TraceUpTo(X, n) == IF n = 0 THEN Zero ELSE RAdd(TraceUpTo(X, n - 1), X[n][n])
Trace(X) == TraceUpTo(X, Len(X))

(***************************************************************************)
(* scipy.linalg.pinv of a symmetric positive semi-definite matrix M (the   *)
(* Gram matrix Ah.A).  The Moore-Penrose inverse is unique; it is computed *)
(* exactly from the Faddeev-LeVerrier sequence N_0 = I, M_j = M.N_(j-1),   *)
(* c_j = -tr(M_j)/j, N_j = M_j + c_j.I : with rho the rank of M (the last  *)
(* j with c_j # 0), pinv(M) = N_(rho-1).M.N_(rho-1) / c_rho^2, and the     *)
(* zero matrix when M = 0.                                                 *)
(***************************************************************************)
LeVerrierStep(Mj, cj) == [N |-> MatAdd(Mj, MatScale(cj, Identity(Len(Mj)))), c |-> cj]
LeVerrierNext(prev, Mj, j) ==
    Append(prev, LeVerrierStep(Mj, RNeg(RDiv(Trace(Mj), RInt(j)))))

RECURSIVE LeVerrier(_, _)
LeVerrier(M, j) ==
    IF j = 0 THEN << [N |-> Identity(Len(M)), c |-> One] >>
    ELSE With(LeVerrier(M, j - 1),
              LAMBDA prev : LeVerrierNext(prev, Dot(M, prev[j].N, Len(M)), j))

Rank(lv) == Cardinality({j \in 2..Len(lv) : lv[j].c # Zero})

PinvOfRank(M, N, c) == MatScale(RDiv(One, RMul(c, c)), Dot(Dot(N, M, Len(M)), N, Len(M)))

PinvFrom(M, lv, rho) ==
    IF rho = 0 THEN MatScale(Zero, M) ELSE PinvOfRank(M, lv[rho].N, lv[rho + 1].c)

pinv(M) == With(LeVerrier(M, Len(M)), LAMBDA lv : PinvFrom(M, lv, Rank(lv)))

(***************************************************************************)
(* _compute_proj: the orthogonal projection I - A (Ah A)^+ Ah.             *)
(***************************************************************************)
ProjFrom(Acols, Ah, I, m) ==
    MatSub(I, Dot(Dot(Acols, pinv(Dot(Ah, Acols, Len(Acols))), m), Ah, m))

compute_proj(Acols, m) == ProjFrom(Acols, Transpose(Acols, m), Identity(m), m)

(***************************************************************************)
(* np.linalg.qr(G, mode='reduced')[0]: LAPACK's Householder QR (dgeqr2,    *)
(* dlarfg, dorg2r).  In step j the reflector H = I - tau.v.vT is built     *)
(* from column j of the working matrix, rows j..m; when the part below the *)
(* diagonal is zero dlarfg returns tau = 0 and H is the identity.  The     *)
(* norm is exact on the blocks of the model, whose columns have at most    *)
(* one non-zero entry.                                                     *)
(***************************************************************************)
ISqrt(n) == CHOOSE s \in 0..n : s * s = n
RSqrt(q) == <<ISqrt(q[1]), ISqrt(q[2])>>

RECURSIVE SumSqFrom(_, _)
SumSqFrom(col, i) ==
    IF i > Len(col) THEN Zero ELSE RAdd(RMul(col[i], col[i]), SumSqFrom(col, i + 1))

\* H = I - tau.v.vT
ReflectorMatrix(tau, v) ==
    Vec([c \in 1..Len(v) |-> Vec([i \in 1..Len(v) |->
        RSub(IF i = c THEN One ELSE Zero, RMul(tau, RMul(v[i], v[c])))])])

\* dlarfg with beta = -sign(alpha).norm: tau = (beta - alpha)/beta, v = x/(alpha - beta)
ReflectorFor(col, j, alpha, beta) ==
    ReflectorMatrix(RDiv(RSub(beta, alpha), beta),
                    Vec([i \in 1..Len(col) |-> IF i < j THEN Zero
                                               ELSE IF i = j THEN One
                                               ELSE RDiv(col[i], RSub(alpha, beta))]))

ReflectorOfNorm(col, j, alpha, norm) ==
    ReflectorFor(col, j, alpha, IF alpha[1] >= 0 THEN RNeg(norm) ELSE norm)

ReflectorBelow(col, j, xnorm2) ==
    IF xnorm2 = Zero THEN Identity(Len(col))
    ELSE ReflectorOfNorm(col, j, col[j], RSqrt(RAdd(RMul(col[j], col[j]), xnorm2)))

Reflector(col, j) == ReflectorBelow(col, j, SumSqFrom(col, j + 1))

RECURSIVE Householder(_, _, _)
\* the product H_1 ... H_n after steps j..n on the working matrix W
Householder(W, Q, j) ==
    IF j > Len(W) THEN Q
    ELSE With(Reflector(W[j], j),
              LAMBDA H : Householder(Dot(H, W, Len(H)), Dot(Q, H, Len(H)), j + 1))

qr_reduced(Gk) == SubSeq(Householder(Gk, Identity(NRows(Gk)), 1), 1, Len(Gk))

(***************************************************************************)
(* scipy.linalg.eigh of a diagonal matrix: the eigenvalues are the         *)
(* diagonal entries in ascending order and the eigenvectors the unit       *)
(* vectors.  The order of equal eigenvalues is LAPACK's: tie = "stable"    *)
(* keeps them in index order, tie = "reverse" in reverse index order.      *)
(* EighOrder is the sequence of indices in the order of the result.        *)
(***************************************************************************)
IsDiagonal(M) == \A j \in 1..Len(M) : \A i \in 1..Len(M) : i # j => M[j][i] = Zero

Before(M, tie, i, j) ==
    \/ RLess(M[i][i], M[j][j])
    \/ M[i][i] = M[j][j] /\ (IF tie = "stable" THEN i < j ELSE j < i)

EighOrder(M, tie) ==
    Vec([p \in 1..Len(M) |->
        CHOOSE i \in 1..Len(M) : Cardinality({j \in 1..Len(M) : Before(M, tie, j, i)}) = p - 1])

UnitVector(i, n) == Vec([l \in 1..n |-> IF l = i THEN One ELSE Zero])

EighInOrder(M, ord) ==
    [eig_vals |-> Vec([p \in 1..Len(M) |-> M[ord[p]][ord[p]]]),
     eig_vecs |-> Vec([p \in 1..Len(M) |-> UnitVector(ord[p], Len(M))])]

eigh(M, tie) == EighInOrder(M, EighOrder(M, tie))

(***************************************************************************)
(* A subspace correlation is the square root of a rational, the -1 that    *)
(* subcorr_max starts from, or nan (0/0).  sq holds the square.            *)
(***************************************************************************)
MinusOne == [nan |-> FALSE, neg |-> TRUE, sq |-> One]
NaN == [nan |-> TRUE, neg |-> FALSE, sq |-> Zero]
SqrtOf(q) == [nan |-> FALSE, neg |-> FALSE, sq |-> q]

\* a > b on floats: false when either is nan
Greater(a, b) ==
    /\ ~a.nan /\ ~b.nan
    /\ IF a.neg THEN b.neg /\ RLess(a.sq, b.sq)
       ELSE b.neg \/ RLess(b.sq, a.sq)

(***************************************************************************)
(* _compute_subcorr                                                         *)
(***************************************************************************)
\* np.dot(np.dot(Gh, phi_sig), np.dot(phi_sigh, G))
Correlation(Gh, phi, phi_sigh, X) ==
    Dot(Dot(Gh, phi, Len(X)), Dot(phi_sigh, X, Len(phi)), Len(X))

\* mutant: a zero denominator is guarded and gives correlation 0
SqrtRatioGuarded(num, den) == IF den = Zero THEN SqrtOf(Zero) ELSE SqrtOf(RDiv(num, den))

\* np.sqrt(subcorr / np.dot(Gh, G)), where 0/0 is nan
SqrtRatio(num, den) == IF den = Zero THEN NaN ELSE SqrtOf(RDiv(num, den))

SubcorrFixed(X, Gh, phi, phi_sigh) ==
    [subcorr |-> SqrtRatio(Correlation(Gh, phi, phi_sigh, X)[1][1], Dot(Gh, X, 1)[1][1]),
     ori |-> <<One>>]

\* np.sqrt(eig_vals[-1]), eig_vecs[:, -1]
LastEig(e) ==
    [subcorr |-> SqrtOf(e.eig_vals[Len(e.eig_vals)]), ori |-> e.eig_vecs[Len(e.eig_vecs)]]

SubcorrFree(Ug, phi, m, tie) ==
    LastEig(eigh(Correlation(Transpose(Ug, m), phi, Transpose(phi, m), Ug), tie))

compute_subcorr(Gk, phi, tie) ==
    IF Len(Gk) = 1
    THEN SubcorrFixed(Gk, Transpose(Gk, NRows(Gk)), phi, Transpose(phi, NRows(Gk)))
    ELSE SubcorrFree(qr_reduced(Gk), phi, NRows(Gk), tie)

(***************************************************************************)
(* numpy indexing and sorting.  Program indices are 0-based; a negative    *)
(* index counts from the end and an index outside -size..size-1 raises     *)
(* IndexError.                                                             *)
(***************************************************************************)
InRange(idx, size) == -size <= idx /\ idx < size
Item(s, idx) == IF idx < 0 THEN s[Len(s) + idx + 1] ELSE s[idx + 1]
Take(s, idxs) == Vec([l \in 1..Len(idxs) |-> Item(s, idxs[l])])

Insert(x, s, n) == SubSeq(s, 1, n) \o <<x>> \o SubSeq(s, n + 1, Len(s))
InsertSorted(x, s) == Insert(x, s, Cardinality({i \in 1..Len(s) : s[i] < x}))

\* mutant: the active set is left in discovery order
unsorted(s) == s

RECURSIVE np_sort(_)
np_sort(s) == IF s = <<>> THEN <<>> ELSE InsertSorted(Head(s), np_sort(Tail(s)))

Diag(d) == Vec([j \in 1..Len(d) |-> Vec([i \in 1..Len(d) |->
               IF i = j THEN d[j] ELSE Zero])])

(***************************************************************************)
(* Bounds of the model and the inputs of one call.                         *)
(***************************************************************************)
MaxSources == 2
MaxCand == 2

\* n_orient = 3 if is_free_ori else 1
FreeOrient == 3
FixedOrient == 1

\* the number of sensors
NChan == 4
Chan == 1..NChan

\* the vector with entry d[i] at the sensors i of d's domain, 0 elsewhere
Sensors(d) == Vec([i \in Chan |-> IF i \in DOMAIN d THEN RInt(d[i]) ELSE Zero])

\* topographies of a fixed-orientation forward operator
Topographies == {Sensors(<<1>>), Sensors(<<0, 1>>), Sensors(<<1, 1>>), Sensors(<<1, 0, 1>>)}

\* the three columns of a free-orientation source lie along distinct sensor axes
Blocks == {<<1, 2, 3>>, <<3, 4, 2>>}

BlockMatrix(bs) ==
    Vec([c \in 1..(FreeOrient * Len(bs)) |->
         UnitVector(bs[((c - 1) \div FreeOrient) + 1][((c - 1) % FreeOrient) + 1], NChan)])

Leadfields(free, nc) ==
    IF free THEN {BlockMatrix(bs) : bs \in [1..nc -> Blocks]}
    ELSE [1..nc -> Topographies]

\* compute_whitener's result
Whiteners == {Diag(Vec([i \in Chan |-> IF i = 1 THEN RInt(2) ELSE One]))}

\* evoked data with one sample per channel: data.data^T is diagonal
Recordings == {Diag(Sensors(<<1, 2>>))}

\* the dimension of the signal subspace
SubspaceDims == {1, 2}

\* the vertex numbers of the left and of the right hemisphere
Vertno(n_lh, nc) == << Vec([i \in 1..n_lh |-> 10 + i]), Vec([i \in 1..(nc - n_lh) |-> 20 + i]) >>

VARIABLES
    pc,              \* where the call is: entry, round, scan, done, IndexError
    is_free_ori, pick_ori, G, whitener, data, r, n_sources, return_residual,
    src,             \* forward['src']: the vertex numbers of the two hemispheres
    vertno,
    eigh_tie,        \* the order in which this build's eigh returns equal eigenvalues
    gain, phi_sig, n_orient, A, active_set, G_proj, phi_sig_proj,
    k, i_source, subcorr_max, ori,
    log,             \* what logger.info has reported
    sol, D

inputs == <<pick_ori, whitener, r, n_sources, return_residual, eigh_tie, src>>
vars == <<pc, src, is_free_ori, pick_ori, G, whitener, data, r, n_sources, return_residual,
          vertno, eigh_tie, gain, phi_sig, n_orient, A, active_set, G_proj,
          phi_sig_proj, k, i_source, subcorr_max, ori, log, sol, D>>

\* the state on entry to _apply_rap_music, after _prepare_beamformer_input (line 70)
Init ==
    \E free \in BOOLEAN, nc \in 1..MaxCand :
    \E lf \in Leadfields(free, nc), n_lh \in 0..nc :
        /\ pc = "entry"
        /\ is_free_ori = free
        /\ pick_ori \in (IF free THEN {"None", "normal"} ELSE {"None"})
        /\ G = lf
        /\ whitener \in Whiteners
        /\ data \in Recordings
        /\ r \in SubspaceDims
        /\ n_sources \in 1..MaxSources
        /\ return_residual = TRUE
        /\ src = Vertno(n_lh, nc)
        /\ vertno = src
        /\ eigh_tie \in {"stable", "reverse"}
        /\ gain = <<>> /\ phi_sig = <<>> /\ n_orient = 0 /\ A = <<>>
        /\ active_set = <<>> /\ G_proj = <<>> /\ phi_sig_proj = <<>>
        /\ k = 0 /\ i_source = 0 /\ subcorr_max = MinusOne /\ ori = <<>>
        /\ log = <<>> /\ sol = <<>> /\ D = <<>>

\* G.shape[1] // n_orient
NCand == Len(G) \div n_orient

\* G[:, 2::3]
PickNormal(X) == Vec([c \in 1..(Len(X) \div 3) |-> X[3 * c]])

\* eig_vectors[:, -r:]
LastColumns(X, n) == SubSeq(X, IF n >= Len(X) THEN 1 ELSE Len(X) - n + 1, Len(X))

\* G_proj[:, n_orient * i_source: n_orient * i_source + n_orient]
Block(X, w, i) == SubSeq(X, w * i + 1, w * i + w)

\* lines 89-90
SignalSubspace(X, n, tie) == LastColumns(eigh(Dot(X, Transpose(X, NChan), NChan), tie).eig_vecs, n)

\* lines 71-97; info['projs'] is empty
Prepare ==
    /\ pc = "entry"
    /\ gain' = G
    /\ data' = Dot(whitener, data, NChan)
    /\ G' = IF pick_ori = "normal" THEN PickNormal(Dot(whitener, G, NChan))
            ELSE Dot(whitener, G, NChan)
    /\ is_free_ori' = IF pick_ori = "normal" THEN FALSE ELSE is_free_ori
    /\ phi_sig' = SignalSubspace(data', r, eigh_tie)
    /\ n_orient' = IF is_free_ori' THEN FreeOrient ELSE FixedOrient
    /\ A' = Vec([j \in 1..n_sources |-> Vec([i \in Chan |-> Zero])])
    /\ active_set' = Vec([j \in 1..n_sources |-> -1])
    /\ G_proj' = G'
    /\ phi_sig_proj' = phi_sig'
    /\ pc' = "round"
    /\ UNCHANGED <<inputs, vertno, k, i_source, subcorr_max, ori, log, sol, D>>

\* lines 99-100
RoundStart ==
    /\ pc = "round" /\ k < n_sources
    /\ subcorr_max' = MinusOne
    /\ i_source' = 0
    /\ pc' = "scan"
    /\ UNCHANGED <<inputs, is_free_ori, G, data, vertno, gain, phi_sig, n_orient, A,
                   active_set, G_proj, phi_sig_proj, k, ori, log, sol, D>>

\* mutant: a tie replaces the current best (>= for >)
ReplacesOnTie(subcorr, best) ==
    Greater(subcorr, best) \/ (~subcorr.nan /\ subcorr = best)

\* line 106
Replaces(subcorr, best) == Greater(subcorr, best)

\* lines 101-108, one candidate
Scan ==
    /\ pc = "scan" /\ i_source < NCand
    /\ \E Gk \in {Block(G_proj, n_orient, i_source)} :
       \E res \in {compute_subcorr(Gk, phi_sig_proj, eigh_tie)} :
           /\ ori' = res.ori
           /\ IF Replaces(res.subcorr, subcorr_max)
              THEN /\ subcorr_max' = res.subcorr
                   /\ active_set' = [active_set EXCEPT ![k + 1] = i_source]
                   /\ A' = [A EXCEPT ![k + 1] = MatVec(Gk, res.ori, NChan)]
              ELSE UNCHANGED <<subcorr_max, active_set, A>>
    /\ i_source' = i_source + 1
    /\ UNCHANGED <<pc, inputs, is_free_ori, G, data, vertno, gain, phi_sig, n_orient,
                   G_proj, phi_sig_proj, k, log, sol, D>>

\* mutant: the projector is built from the latest column only, A[:, k:k + 1]
LatestColumn(X, n) == SubSeq(X, n + 1, n + 1)

\* A[:, :k + 1]
FoundColumns(X, n) == SubSeq(X, 1, n + 1)

\* lines 110-116
EndRound ==
    /\ pc = "scan" /\ i_source = NCand
    /\ log' = Append(log, [source |-> k + 1, p |-> active_set[k + 1],
                           ori |-> IF n_orient = 3 THEN ori ELSE <<>>])
    /\ \E projection \in {compute_proj(FoundColumns(A, k), NChan)} :
           /\ G_proj' = Dot(projection, G, NChan)
           /\ phi_sig_proj' = Dot(projection, phi_sig, NChan)
    /\ k' = k + 1
    /\ pc' = "round"
    /\ UNCHANGED <<inputs, is_free_ori, G, data, vertno, gain, phi_sig, n_orient, A,
                   active_set, i_source, subcorr_max, ori, sol, D>>

\* linalg.lstsq(A, data)[0]: the least-squares solution of minimum norm
lstsq(X, Y) == Dot(Dot(pinv(Dot(Transpose(X, NChan), X, Len(X))), Transpose(X, NChan), Len(X)),
                   Y, Len(X))

\* active_set[active_set > vertno[0].size] - vertno[0].size
RightIndices(s, n_lh) == With(SelectSeq(s, LAMBDA i : i > n_lh),
                              LAMBDA rh : Vec([l \in 1..Len(rh) |-> rh[l] - n_lh]))

\* active_set[active_set <= vertno[0].size]
LeftIndices(s, n_lh) == SelectSeq(s, LAMBDA i : i <= n_lh)

AllInRange(idxs, size) == \A l \in 1..Len(idxs) : InRange(idxs[l], size)

\* lines 118-133
Finish ==
    /\ pc = "round" /\ k = n_sources
    /\ sol' = lstsq(A, data)
    /\ active_set' = np_sort(active_set)
    /\ D' = IF return_residual THEN Dot(Take(gain, active_set'), sol', NChan) ELSE <<>>
    /\ \E rh_idx \in {RightIndices(active_set', Len(vertno[1]))},
          lh_idx \in {LeftIndices(active_set', Len(vertno[1]))} :
           IF ~AllInRange(rh_idx, Len(vertno[2]))
           THEN pc' = "IndexError" /\ UNCHANGED vertno
           ELSE IF ~AllInRange(lh_idx, Len(vertno[1]))
           THEN pc' = "IndexError" /\ vertno' = <<vertno[1], Take(vertno[2], rh_idx)>>
           ELSE pc' = "done"
                /\ vertno' = <<Take(vertno[1], lh_idx), Take(vertno[2], rh_idx)>>
    /\ UNCHANGED <<inputs, is_free_ori, G, data, gain, phi_sig, n_orient, A, G_proj,
                   phi_sig_proj, k, i_source, subcorr_max, ori, log>>

Next == Prepare \/ RoundStart \/ Scan \/ EndRound \/ Finish

Spec == Init /\ [][Next]_vars

(***************************************************************************)
(* Properties.                                                             *)
(***************************************************************************)
\* the scan of round k is complete: the state in which lines 110-116 run
ScanDone == pc = "scan" /\ i_source = NCand

\* what _compute_subcorr returns for candidate i in the current round
Corr(i) == compute_subcorr(Block(G_proj, n_orient, i), phi_sig_proj, eigh_tie)

\* the correlations of the candidates 0..n-1 in the current round
Subcorrs(n) == Vec([i \in 1..n |-> Corr(i - 1).subcorr])

IsCandidate(i) == 0 <= i /\ i < NCand

AllFound == \A j \in 1..Len(active_set) : IsCandidate(active_set[j])

LowestMaximum(S, best, w) ==
    (\E i \in 1..Len(S) : ~S[i].nan) =>
        /\ w + 1 \in 1..Len(S)
        /\ best = S[w + 1]
        /\ \A i \in 1..Len(S) : ~Greater(S[i], best)
        /\ \A i \in 1..w : S[i].nan \/ Greater(best, S[i])

\* C1: at every point of the scan of a round, the candidate recorded in
\* active_set[k] is the lowest-index candidate, among those scanned so far
\* (0..i_source-1, in ascending order), whose subspace correlation is the
\* maximum of the correlations scanned so far; a correlation that is nan
\* (0/0) compares false and attains nothing.
C1_LowestIndexMaximum ==
    pc = "scan" => LowestMaximum(Subcorrs(i_source), subcorr_max, active_set[k + 1])

\* C1 witness: a completed scan in which a later candidate ties with the winner
C1_TieWitness ==
    /\ ScanDone
    /\ IsCandidate(active_set[k + 1])
    /\ \E i \in 0..(NCand - 1) : i > active_set[k + 1] /\ Corr(i).subcorr = subcorr_max

\* C2: once the n_sources rounds are complete (and n_sources <= n_candidates),
\* active_set has n_sources entries and each is a candidate index
\* 0..n_candidates-1, none the placeholder -1.
C2_AllEntriesValid ==
    (pc = "round" /\ k = n_sources /\ n_sources <= NCand) =>
        Len(active_set) = n_sources /\ AllFound

\* the vertex the claim assigns to flat candidate index i
VertexOf(i) == IF i < Len(src[1]) THEN src[1][i + 1] ELSE src[2][i - Len(src[1]) + 1]

\* C3: when every entry of the active set is a candidate, the mapping to
\* vertices raises no IndexError, index i < n_lh is reported as vertno[0][i],
\* index i >= n_lh as vertno[1][i - n_lh], and the two lists hold n_sources
\* vertices.
C3_VertexMapping ==
    (pc \in {"done", "IndexError"} /\ n_sources <= NCand /\ AllFound) =>
        /\ pc = "done"
        /\ Len(vertno[1]) + Len(vertno[2]) = n_sources
        /\ vertno[1] \o vertno[2] = Vec([j \in 1..n_sources |-> VertexOf(active_set[j])])

\* the candidate that column c (0-based) of the unwhitened leadfield belongs to
ColumnOwner(c) == c \div (Len(gain) \div NCand)

\* C4: in the outputs, row j of sol (fitted against column j of A, the source
\* found in round j and logged as such) goes with the j-th reported vertex and
\* with the j-th selected column of gain in D; both must belong to the
\* candidate found in round j.
C4_RowsPairedWithCandidates ==
    (pc = "done" /\ n_sources <= NCand /\ AllFound) =>
        \A j \in 1..n_sources :
            /\ active_set[j] = log[j].p
            /\ ColumnOwner(active_set[j]) = log[j].p

\* C5: when n_sources exceeds the number of candidates no search round is
\* performed and nothing is produced.
C5_FailsBeforeAnyRound ==
    (pc # "entry" /\ n_sources > NCand) =>
        pc = "round" /\ k = 0 /\ log = <<>> /\ sol = <<>>

Count(s, v) == Cardinality({j \in 1..Len(s) : s[j] = v})

\* C6: the reported active set is in ascending order and holds, with the
\* same multiplicities, the indices recorded in the n_sources rounds.
C6_ReportedSortedPermutation ==
    pc = "done" =>
        /\ \A j \in 1..(Len(active_set) - 1) : active_set[j] <= active_set[j + 1]
        /\ Len(active_set) = Len(log)
        /\ \A v \in -1..(NCand - 1) :
               Count(active_set, v) = Count([j \in 1..Len(log) |-> log[j].p], v)

\* C6 witness: a finished call whose sources were found in descending order
C6_UnorderedDiscoveryWitness ==
    /\ pc = "done"
    /\ \E j \in 1..(Len(log) - 1) : log[j].p > log[j + 1].p /\ log[j + 1].p >= 0

\* C7: when the scan of round k is complete, column k of A is the block of
\* the original (whitened, undeflated) leadfield G of the selected candidate
\* times the orientation found for it.
C7_TopographyFromOriginal ==
    (ScanDone /\ n_sources <= NCand /\ IsCandidate(active_set[k + 1])) =>
        A[k + 1] = MatVec(Block(G, n_orient, active_set[k + 1]),
                          Corr(active_set[k + 1]).ori, NChan)

\* lines 77 and 86: the whitened leadfield, its normal columns if asked for
Whitened(X) == IF pick_ori = "normal" THEN PickNormal(Dot(whitener, X, NChan))
               ELSE Dot(whitener, X, NChan)

DeflatedBy(P) == G_proj = Dot(P, G, NChan) /\ phi_sig_proj = Dot(P, phi_sig, NChan)

\* C8: at the start of every round (and after the last one) the original
\* whitened leadfield G and the basis phi_sig are what lines 77-90 computed;
\* at the start of round 0 the working copies are the originals, and at the
\* start of round k >= 1 they are P.G and P.phi_sig for the projector P of the
\* k columns A[:, 0..k-1].
C8_DeflationFromOriginals ==
    pc = "round" =>
        /\ G = Whitened(gain)
        /\ phi_sig = SignalSubspace(data, r, eigh_tie)
        /\ IF k = 0 THEN G_proj = G /\ phi_sig_proj = phi_sig
           ELSE \A P \in {compute_proj(SubSeq(A, 1, k), NChan)} : DeflatedBy(P)

\* C8 witness: a later round scans a leadfield that deflation by two found
\* columns has changed
C8_DeflatedRoundWitness ==
    pc = "round" /\ k >= 2 /\ n_sources <= NCand /\ G_proj # G /\ phi_sig_proj # phi_sig
    /\ A[1] # A[2] /\ A[2] # Vec([i \in Chan |-> Zero])

NoRepeat == \A i, j \in 1..Len(active_set) :
                (i < j /\ IsCandidate(active_set[i])) => active_set[j] # active_set[i]

C10_ReportedOrientation ==
    (ScanDone /\ n_orient = 3 /\ n_sources <= NCand /\ IsCandidate(active_set[k + 1])) =>
        ori = Corr(active_set[k + 1]).ori

\* the model's arithmetic is exact: eigh is only given diagonal matrices
ExactFamily ==
    /\ pc # "entry" => IsDiagonal(Dot(data, Transpose(data, NChan), NChan))
    /\ (pc = "scan" /\ n_orient = 3) =>
           \A i \in 0..(NCand - 1) :
               \A Ug \in {qr_reduced(Block(G_proj, n_orient, i))} :
                   IsDiagonal(Correlation(Transpose(Ug, NChan), phi_sig_proj,
                                          Transpose(phi_sig_proj, NChan), Ug))

====
